---- MODULE Spec2Model ----
(***************************************************************************)
(* Model of the input-line compiler of the CLI shell:                      *)
(*   Tokenizer -> split_on_pipes_tokens -> QuoteHandler -> Expander ->     *)
(*   CommandProducer, driven by InputProcessor::process.                   *)
(*                                                                         *)
(* A string is a sequence of characters, a character is a one-character    *)
(* TLA+ string.  Option<String> is a record [some, v]; Result<T> is a      *)
(* record [ok, val, err].                                                  *)
(***************************************************************************)
EXTENDS Integers, Sequences, FiniteSets, TLC

VARIABLES line, env, pc, raw, parts, segs, pieces, cmd, cmds, result, calls,
          read, executed, reported

vars == <<line, env, pc, raw, parts, segs, pieces, cmd, cmds, result, calls,
          read, executed, reported>>

(***************************************************************************)
(* Bounds of the explored inputs.                                          *)
(***************************************************************************)
MaxLineLen == 4
MaxWords == 4
MaxExpLen == 4
MaxChunks == 4
MaxRest == 4
MaxCalls == 3
MaxCallWords == 2
MaxRefChunks == 2
MaxReads == 3
MaxOpWords == 3
MaxMixedParts == 3

(***************************************************************************)
(* Characters.                                                             *)
(***************************************************************************)
SQ == "'"
DQ == "\""
BS == "\\"
SP == " "
TAB == "\t"
DOLLAR == "$"
PIPE == "|"
LT == "<"
GT == ">"
LBRACE == "{"
RBRACE == "}"
PLUS == "+"

Letters == {"a", "f", "g", "p", "A", "B", "X", "e", "x", "i", "t", "h", "l"}
Digits == {"0", "1", "2", "3", "4", "5", "6", "7", "8", "9"}

IsAsciiAlphabetic(c) == c \in Letters
IsAsciiAlphanumeric(c) == c \in Letters \cup Digits
IsIdentStart(c) == IsAsciiAlphabetic(c) \/ c = "_"
IsIdentChar(c) == IsAsciiAlphanumeric(c) \/ c = "_"

(***************************************************************************)
(* Generic helpers on sequences.                                           *)
(***************************************************************************)
Take(s, n) == SubSeq(s, 1, n)

(***************************************************************************)
(* Option and Result values.                                               *)
(***************************************************************************)
None == [some |-> FALSE, v |-> <<>>]
Some(x) == [some |-> TRUE, v |-> x]

NoError == [kind |-> "none", msg |-> ""]
QuoteError == [kind |-> "Quote", msg |-> "unclosed quote"]
EmptyCommand == [kind |-> "EmptyCommand", msg |-> ""]

Ok(x) == [ok |-> TRUE, val |-> x, err |-> NoError]
Err(e) == [ok |-> FALSE, val |-> <<>>, err |-> e]

(***************************************************************************)
(* Environment: a map from names to values.                                *)
(***************************************************************************)
\* variant: a missing variable reads as the empty string
EnvGet_Default(e, name) == IF name \in DOMAIN e THEN Some(e[name]) ELSE Some(<<>>)

EnvGet(e, name) == IF name \in DOMAIN e THEN Some(e[name]) ELSE None

EmptyEnv == [n \in {} |-> <<>>]

(***************************************************************************)
(* Tokenizer::tokenize                                                     *)
(***************************************************************************)
NoQuote == "none"

RECURSIVE TokScan(_, _, _, _, _)
TokScan(l, i, out, buf, quote) ==
  IF i > Len(l) THEN [out |-> out, buf |-> buf, quote |-> quote]
  ELSE LET c == l[i] IN
    IF quote = NoQuote /\ c \in {SP, TAB}
    THEN TokScan(l, i + 1, IF buf # <<>> THEN Append(out, buf) ELSE out, <<>>, quote)
    ELSE IF quote = NoQuote /\ c \in {SQ, DQ}
    THEN TokScan(l, i + 1, out, Append(buf, c), c)
    ELSE IF quote # NoQuote /\ c = quote
    THEN TokScan(l, i + 1, out, Append(buf, c), NoQuote)
    ELSE IF c = BS
    THEN IF i + 1 <= Len(l)
         THEN TokScan(l, i + 2, out, buf \o <<BS, l[i + 1]>>, quote)
         ELSE TokScan(l, i + 1, out, Append(buf, BS), quote)
    ELSE TokScan(l, i + 1, out, Append(buf, c), quote)

\* variant: the end-of-input quote check is left out
Tokenize_NoQuoteCheck(l) ==
  LET s == TokScan(l, 1, <<>>, <<>>, NoQuote) IN
  Ok(IF s.buf # <<>> THEN Append(s.out, s.buf) ELSE s.out)

\* variant: a backslash and the character after it are scanned like any
\* other two characters
RECURSIVE TokScanNoEscape(_, _, _, _, _)
TokScanNoEscape(l, i, out, buf, quote) ==
  IF i > Len(l) THEN [out |-> out, buf |-> buf, quote |-> quote]
  ELSE LET c == l[i] IN
    IF quote = NoQuote /\ c \in {SP, TAB}
    THEN TokScanNoEscape(l, i + 1, IF buf # <<>> THEN Append(out, buf) ELSE out, <<>>, quote)
    ELSE IF quote = NoQuote /\ c \in {SQ, DQ}
    THEN TokScanNoEscape(l, i + 1, out, Append(buf, c), c)
    ELSE IF quote # NoQuote /\ c = quote
    THEN TokScanNoEscape(l, i + 1, out, Append(buf, c), NoQuote)
    ELSE TokScanNoEscape(l, i + 1, out, Append(buf, c), quote)

Tokenize_NoEscape(l) ==
  LET s == TokScanNoEscape(l, 1, <<>>, <<>>, NoQuote) IN
  IF s.quote # NoQuote THEN Err(QuoteError)
  ELSE Ok(IF s.buf # <<>> THEN Append(s.out, s.buf) ELSE s.out)

Tokenize(l) ==
  LET s == TokScan(l, 1, <<>>, <<>>, NoQuote) IN
  IF s.quote # NoQuote THEN Err(QuoteError)
  ELSE Ok(IF s.buf # <<>> THEN Append(s.out, s.buf) ELSE s.out)

(***************************************************************************)
(* split_on_pipes_tokens                                                   *)
(***************************************************************************)
RECURSIVE SplitScan(_, _, _, _)
SplitScan(r, i, out, cur) ==
  IF i > Len(r) THEN (IF cur # <<>> THEN Append(out, cur) ELSE out)
  ELSE IF r[i] = <<PIPE>>
       THEN SplitScan(r, i + 1, Append(out, cur), <<>>)
       ELSE SplitScan(r, i + 1, out, Append(cur, r[i]))

\* variant: the comparison with "|" is made after stripping enclosing
\* double quotes
RECURSIVE SplitScanUnquoted(_, _, _, _)
SplitScanUnquoted(r, i, out, cur) ==
  IF i > Len(r) THEN (IF cur # <<>> THEN Append(out, cur) ELSE out)
  ELSE IF r[i] = <<PIPE>> \/ r[i] = <<DQ, PIPE, DQ>>
       THEN SplitScanUnquoted(r, i + 1, Append(out, cur), <<>>)
       ELSE SplitScanUnquoted(r, i + 1, out, Append(cur, r[i]))

split_on_pipes_unquoted(r) == SplitScanUnquoted(r, 1, <<>>, <<>>)

\* variant: the last group is pushed even when it is empty
RECURSIVE SplitScanKeepLast(_, _, _, _)
SplitScanKeepLast(r, i, out, cur) ==
  IF i > Len(r) THEN Append(out, cur)
  ELSE IF r[i] = <<PIPE>>
       THEN SplitScanKeepLast(r, i + 1, Append(out, cur), <<>>)
       ELSE SplitScanKeepLast(r, i + 1, out, Append(cur, r[i]))

split_on_pipes_keep_last(r) == SplitScanKeepLast(r, 1, <<>>, <<>>)

split_on_pipes_tokens(r) == SplitScan(r, 1, <<>>, <<>>)

(***************************************************************************)
(* QuoteHandler::handle and the two unescape functions                     *)
(***************************************************************************)
RECURSIVE UnescapeDQScan(_, _, _)
UnescapeDQScan(s, i, out) ==
  IF i > Len(s) THEN out
  ELSE IF s[i] = BS
       THEN IF i + 1 <= Len(s)
            THEN IF s[i + 1] = DOLLAR
                 THEN UnescapeDQScan(s, i + 2, out \o <<BS, DOLLAR>>)
                 ELSE UnescapeDQScan(s, i + 2, Append(out, s[i + 1]))
            ELSE UnescapeDQScan(s, i + 1, out)
       ELSE UnescapeDQScan(s, i + 1, Append(out, s[i]))

\* variant: a backslash before $ is consumed like any other
RECURSIVE unescape_every_pair(_)
unescape_every_pair(s) ==
  IF s = <<>> THEN <<>>
  ELSE IF s[1] # BS THEN <<s[1]>> \o unescape_every_pair(Tail(s))
  ELSE IF Len(s) = 1 THEN <<>>
  ELSE <<s[2]>> \o unescape_every_pair(SubSeq(s, 3, Len(s)))

unescape_double_quoted(s) == UnescapeDQScan(s, 1, <<>>)

\* variant: an escaped backslash keeps its escaping backslash
RECURSIVE UnescapeUQScan_KeepEscapedBackslash(_, _, _)
UnescapeUQScan_KeepEscapedBackslash(s, i, out) ==
  IF i > Len(s) THEN out
  ELSE IF s[i] = BS
       THEN IF i + 1 <= Len(s)
            THEN IF s[i + 1] = DOLLAR \/ s[i + 1] = BS
                 THEN UnescapeUQScan_KeepEscapedBackslash(s, i + 2, out \o <<BS, s[i + 1]>>)
                 ELSE UnescapeUQScan_KeepEscapedBackslash(s, i + 2, Append(out, s[i + 1]))
            ELSE UnescapeUQScan_KeepEscapedBackslash(s, i + 1, out)
       ELSE UnescapeUQScan_KeepEscapedBackslash(s, i + 1, Append(out, s[i]))

RECURSIVE UnescapeUQScan(_, _, _)
UnescapeUQScan(s, i, out) ==
  IF i > Len(s) THEN out
  ELSE IF s[i] = BS
       THEN IF i + 1 <= Len(s)
            THEN IF s[i + 1] = DOLLAR
                 THEN UnescapeUQScan(s, i + 2, out \o <<BS, DOLLAR>>)
                 ELSE UnescapeUQScan(s, i + 2, Append(out, s[i + 1]))
            ELSE UnescapeUQScan(s, i + 1, out)
       ELSE UnescapeUQScan(s, i + 1, Append(out, s[i]))

\* variant: nothing is unescaped
unescape_unquoted_keep(s) == s

unescape_unquoted(s) == UnescapeUQScan(s, 1, <<>>)

Token(value, mode) == [value |-> value, mode |-> mode]

\* variant: the quote characters inside an unquoted word are removed
IsNoQuoteChar(c) == c \notin {SQ, DQ}

HandleOne_StripInnerQuotes(s) ==
  IF Len(s) >= 2 /\ s[1] = SQ /\ s[Len(s)] = SQ
  THEN Token(SubSeq(s, 2, Len(s) - 1), "Raw")
  ELSE IF Len(s) >= 2 /\ s[1] = DQ /\ s[Len(s)] = DQ
  THEN Token(unescape_double_quoted(SubSeq(s, 2, Len(s) - 1)), "Weak")
  ELSE Token(unescape_unquoted(SelectSeq(s, IsNoQuoteChar)), "Full")

\* variant: the mode is decided by the first character alone
HandleOne_FirstOnly(s) ==
  IF Len(s) >= 2 /\ s[1] = SQ
  THEN Token(SubSeq(s, 2, Len(s) - 1), "Raw")
  ELSE IF Len(s) >= 2 /\ s[1] = DQ
  THEN Token(unescape_double_quoted(SubSeq(s, 2, Len(s) - 1)), "Weak")
  ELSE Token(unescape_unquoted(s), "Full")

HandleOne(s) ==
  IF Len(s) >= 2 /\ s[1] = SQ /\ s[Len(s)] = SQ
  THEN Token(SubSeq(s, 2, Len(s) - 1), "Raw")
  ELSE IF Len(s) >= 2 /\ s[1] = DQ /\ s[Len(s)] = DQ
  THEN Token(unescape_double_quoted(SubSeq(s, 2, Len(s) - 1)), "Weak")
  ELSE Token(unescape_unquoted(s), "Full")

QuoteHandler_handle(r) == Ok([i \in 1..Len(r) |-> HandleOne(r[i])])

(***************************************************************************)
(* Expander (manual longest-match variant used by InputProcessor)          *)
(***************************************************************************)
SENTINEL == "SOH"

RECURSIVE ProtectScan(_, _, _)
ProtectScan(s, i, out) ==
  IF i > Len(s) THEN out
  ELSE IF s[i] = BS
       THEN IF i + 1 <= Len(s) /\ s[i + 1] = DOLLAR
            THEN ProtectScan(s, i + 2, Append(out, SENTINEL))
            ELSE ProtectScan(s, i + 1, Append(out, BS))
       ELSE ProtectScan(s, i + 1, Append(out, s[i]))

\* variant: step 1 is left out
Protect_Skip(s) == s

\* variant: step 1 removes every backslash
Protect_DropBackslash(s) == SelectSeq(s, LAMBDA c : c # BS)

Protect(s) == ProtectScan(s, 1, <<>>)

\* index one past the maximal run of identifier characters starting at i
RECURSIVE IdentEnd(_, _)
IdentEnd(s, i) ==
  IF i <= Len(s) /\ IsIdentChar(s[i]) THEN IdentEnd(s, i + 1) ELSE i

\* re_braced = \$\{([A-Za-z_][A-Za-z0-9_]*)\} : index of the closing brace of
\* a match starting at i, or 0 when there is no match at i
BracedMatchEnd(s, i) ==
  IF i + 3 <= Len(s) /\ s[i] = DOLLAR /\ s[i + 1] = LBRACE /\ IsIdentStart(s[i + 2])
  THEN LET j == IdentEnd(s, i + 2) IN
       IF j <= Len(s) /\ s[j] = RBRACE THEN j ELSE 0
  ELSE 0

OrEmpty(o) == IF o.some THEN o.v ELSE <<>>

RECURSIVE ReplaceBraced(_, _, _, _)
ReplaceBraced(e, s, i, out) ==
  IF i > Len(s) THEN out
  ELSE LET j == BracedMatchEnd(s, i) IN
       IF j # 0
       THEN ReplaceBraced(e, s, j + 1, out \o OrEmpty(EnvGet(e, SubSeq(s, i + 2, j - 1))))
       ELSE ReplaceBraced(e, s, i + 1, Append(out, s[i]))

\* for try_end in (start_pos..=end_pos).rev(): the largest try_end whose
\* name chars[start_pos..try_end] is non-empty and defined, or 0
\* variant: only the whole run is tried as a name
LongestMatch_WholeRun(e, chars, start, tryEnd) ==
  IF tryEnd > start /\ EnvGet(e, SubSeq(chars, start, tryEnd - 1)).some
  THEN tryEnd
  ELSE 0

RECURSIVE LongestMatch(_, _, _, _)
LongestMatch(e, chars, start, tryEnd) ==
  IF tryEnd < start THEN 0
  ELSE IF tryEnd > start /\ EnvGet(e, SubSeq(chars, start, tryEnd - 1)).some
       THEN tryEnd
       ELSE LongestMatch(e, chars, start, tryEnd - 1)

RECURSIVE SimpleScan(_, _, _, _)
SimpleScan(e, chars, i, res) ==
  IF i > Len(chars) THEN res
  ELSE IF chars[i] = DOLLAR /\ i + 1 <= Len(chars)
       THEN IF IsIdentStart(chars[i + 1])
            THEN LET startPos == i + 1
                     endPos == IdentEnd(chars, startPos)
                     m == LongestMatch(e, chars, startPos, endPos)
                 IN IF m # 0
                    THEN SimpleScan(e, chars, m,
                                    res \o EnvGet(e, SubSeq(chars, startPos, m - 1)).v)
                    ELSE SimpleScan(e, chars, i + 1, Append(res, chars[i]))
            ELSE SimpleScan(e, chars, i + 1, Append(res, chars[i]))
       ELSE SimpleScan(e, chars, i + 1, Append(res, chars[i]))

Restore(s) == [i \in 1..Len(s) |-> IF s[i] = SENTINEL THEN DOLLAR ELSE s[i]]

expand_vars(e, s) ==
  LET protected == Protect(s)
      step == ReplaceBraced(e, protected, 1, <<>>)
      res == SimpleScan(e, step, 1, <<>>)
  IN Restore(res)

\* variant: Raw tokens are expanded like the others
expand_token_all(e, t) == expand_vars(e, t.value)

expand_token(e, t) ==
  IF t.mode = "Raw" THEN t.value ELSE expand_vars(e, t.value)

\* variant: a token that expands to the empty string is an Expansion error
expand_tokens_strict(e, ts) ==
  IF \E i \in 1..Len(ts) : expand_token(e, ts[i]) = <<>>
  THEN Err([kind |-> "Expansion", msg |-> "empty"])
  ELSE Ok([i \in 1..Len(ts) |-> expand_token(e, ts[i])])

\* variant: a token that expands to the empty string gives no piece
expand_tokens_skip_empty(e, ts) ==
  Ok(SelectSeq([i \in 1..Len(ts) |-> expand_token(e, ts[i])], LAMBDA x : x # <<>>))

expand_tokens(e, ts) == Ok([i \in 1..Len(ts) |-> expand_token(e, ts[i])])

(***************************************************************************)
(* Expander, regex variant of the input-handler crate                      *)
(***************************************************************************)
RECURSIVE ReplaceSimple(_, _, _, _)
ReplaceSimple(e, s, i, out) ==
  IF i > Len(s) THEN out
  ELSE IF s[i] = DOLLAR /\ i + 1 <= Len(s) /\ IsIdentStart(s[i + 1])
       THEN LET j == IdentEnd(s, i + 1) IN
            ReplaceSimple(e, s, j, out \o OrEmpty(EnvGet(e, SubSeq(s, i + 1, j - 1))))
       ELSE ReplaceSimple(e, s, i + 1, Append(out, s[i]))

\* variant: the regex Expander without its bare $NAME step
expand_vars_regex_braced_only(e, s) ==
  Restore(ReplaceBraced(e, Protect(s), 1, <<>>))

expand_vars_regex(e, s) ==
  LET protected == Protect(s)
      step1 == ReplaceBraced(e, protected, 1, <<>>)
      step2 == ReplaceSimple(e, step1, 1, <<>>)
  IN Restore(step2)

(***************************************************************************)
(* parse_fd_redirect and CommandProducer::produce_command                  *)
(***************************************************************************)
\* u32::MAX = 4294967295, as its decimal digits
U32MaxDigits == <<"4", "2", "9", "4", "9", "6", "7", "2", "9", "5">>

DigitVal(c) == CHOOSE n \in 0..9 : ToString(n) = c

RECURSIVE StripZeros(_)
StripZeros(d) == IF d # <<>> /\ Head(d) = "0" THEN StripZeros(Tail(d)) ELSE d

\* a > b for two digit strings of the same length
RECURSIVE DigitsGreater(_, _)
DigitsGreater(a, b) ==
  IF a = <<>> THEN FALSE
  ELSE IF DigitVal(Head(a)) # DigitVal(Head(b))
       THEN DigitVal(Head(a)) > DigitVal(Head(b))
       ELSE DigitsGreater(Tail(a), Tail(b))

OverflowsU32(d) ==
  LET z == StripZeros(d) IN
  \/ Len(z) > Len(U32MaxDigits)
  \/ Len(z) = Len(U32MaxDigits) /\ DigitsGreater(z, U32MaxDigits)

\* the number written by d; produce_command tells 0, 1 and 2 from every
\* other descriptor only, so numbers above 2 are all represented by 3
RECURSIVE DigitsValue(_, _)
DigitsValue(d, acc) ==
  IF d = <<>> THEN acc
  ELSE LET n == acc * 10 + DigitVal(Head(d)) IN
       DigitsValue(Tail(d), IF n > 3 THEN 3 ELSE n)

\* str::parse::<u32>: an optional leading '+', then one or more digits,
\* value at most u32::MAX
ParseU32(s) ==
  LET d == IF s # <<>> /\ s[1] = PLUS THEN Tail(s) ELSE s IN
  IF d = <<>> \/ \E i \in 1..Len(d) : d[i] \notin Digits THEN None
  ELSE IF OverflowsU32(d) THEN None
  ELSE Some(DigitsValue(d, 0))

EndsWith(s, suf) ==
  Len(s) >= Len(suf) /\ SubSeq(s, Len(s) - Len(suf) + 1, Len(s)) = suf

NoFd == [some |-> FALSE, fd |-> 0, append |-> FALSE]

\* variant: only the descriptors 0, 1 and 2 are recognised
parse_fd_redirect_upto2(s) ==
  LET body == IF EndsWith(s, <<GT, GT>>) THEN Take(s, Len(s) - 2)
              ELSE IF EndsWith(s, <<GT>>) THEN Take(s, Len(s) - 1) ELSE <<>>
      fd == ParseU32(body)
  IN IF fd.some /\ fd.v <= 2
     THEN [some |-> TRUE, fd |-> fd.v, append |-> EndsWith(s, <<GT, GT>>)]
     ELSE NoFd

parse_fd_redirect(s) ==
  IF EndsWith(s, <<GT, GT>>)
  THEN LET fd == ParseU32(Take(s, Len(s) - 2)) IN
       IF fd.some THEN [some |-> TRUE, fd |-> fd.v, append |-> TRUE] ELSE NoFd
  ELSE IF EndsWith(s, <<GT>>)
  THEN LET fd == ParseU32(Take(s, Len(s) - 1)) IN
       IF fd.some THEN [some |-> TRUE, fd |-> fd.v, append |-> FALSE] ELSE NoFd
  ELSE NoFd

Command_new(name, args) ==
  [name |-> name, args |-> args, stdin |-> None, stdout |-> None,
   append_stdout |-> FALSE, stderr |-> None, append_stderr |-> FALSE]

\* it.next() on the iterator positioned after index i
ItNext(ps, i) == IF i + 1 <= Len(ps) THEN Some(ps[i + 1]) ELSE None

SetStdin(c, nxt) == [c EXCEPT !.stdin = nxt]

\* variant: a stream that already has a target keeps it
SetStdout_KeepFirst(c, append, nxt) ==
  IF c.stdout.some THEN c ELSE [c EXCEPT !.append_stdout = append, !.stdout = nxt]

\* variant: an operator without target changes nothing
SetStdout_IgnoreMissingTarget(c, append, nxt) ==
  IF nxt.some THEN [c EXCEPT !.append_stdout = append, !.stdout = nxt] ELSE c

SetStdout(c, append, nxt) == [c EXCEPT !.append_stdout = append, !.stdout = nxt]

\* variant: the append flag of stderr is never set
SetStderr_NoAppend(c, append, nxt) ==
  [c EXCEPT !.append_stderr = FALSE, !.stderr = nxt]

SetStderr(c, append, nxt) == [c EXCEPT !.append_stderr = append, !.stderr = nxt]

RECURSIVE ProduceScan(_, _, _)
ProduceScan(ps, i, c) ==
  IF i > Len(ps) THEN c
  ELSE LET p == ps[i]
           nxt == ItNext(ps, i)
       IN
    IF p \in {<<LT>>, <<"0", LT>>}
    THEN ProduceScan(ps, i + 2, SetStdin(c, nxt))
    ELSE IF p \in {<<GT>>, <<"1", GT>>}
    THEN ProduceScan(ps, i + 2, SetStdout(c, FALSE, nxt))
    ELSE IF p \in {<<GT, GT>>, <<"1", GT, GT>>}
    THEN ProduceScan(ps, i + 2, SetStdout(c, TRUE, nxt))
    ELSE IF p = <<"2", GT>>
    THEN ProduceScan(ps, i + 2, SetStderr(c, FALSE, nxt))
    ELSE IF p = <<"2", GT, GT>>
    THEN ProduceScan(ps, i + 2, SetStderr(c, TRUE, nxt))
    ELSE LET r == parse_fd_redirect(p) IN
      IF r.some
      THEN IF r.fd = 0 /\ ~r.append
           THEN ProduceScan(ps, i + 2, SetStdin(c, nxt))
           ELSE IF r.fd = 1 /\ ~r.append
           THEN ProduceScan(ps, i + 2, SetStdout(c, FALSE, nxt))
           ELSE IF r.fd = 1 /\ r.append
           THEN ProduceScan(ps, i + 2, SetStdout(c, TRUE, nxt))
           ELSE IF r.fd = 2 /\ ~r.append
           THEN ProduceScan(ps, i + 2, SetStderr(c, FALSE, nxt))
           ELSE IF r.fd = 2 /\ r.append
           THEN ProduceScan(ps, i + 2, SetStderr(c, TRUE, nxt))
           ELSE ProduceScan(ps, i + 2,
                  [c EXCEPT !.args = (@ \o <<p>>) \o (IF nxt.some THEN <<nxt.v>> ELSE <<>>)])
      ELSE ProduceScan(ps, i + 1, [c EXCEPT !.args = Append(@, p)])

\* variant: no piece is taken for a redirection
produce_command_no_redirect(ps) ==
  IF ps = <<>> THEN Err(EmptyCommand)
  ELSE Ok(Command_new(Head(ps), Tail(ps)))

\* variant: args are collected in reverse order
produce_command_reversed(ps) ==
  IF ps = <<>> THEN Err(EmptyCommand)
  ELSE LET c == ProduceScan(Tail(ps), 1, Command_new(Head(ps), <<>>)) IN
       Ok([c EXCEPT !.args = [i \in 1..Len(@) |-> @[Len(@) + 1 - i]]])

produce_command(ps) ==
  IF ps = <<>> THEN Err(EmptyCommand)
  ELSE Ok(ProduceScan(Tail(ps), 1, Command_new(Head(ps), <<>>)))

(***************************************************************************)
(* Inputs                                                                  *)
(***************************************************************************)
\* lines of process: every character sequence up to MaxLineLen over
\* LexAlphabet, and every line of up to MaxWords words of LexWords separated
\* by single spaces
LexAlphabet == {"a", SP, SQ, DQ, BS, PIPE}

LexWords ==
  { <<"a">>, <<PIPE>>, <<DQ, "a", PIPE, "a", DQ>>, <<DQ, PIPE, DQ>>,
    <<BS, PIPE>>, <<DQ, DQ>> }

RECURSIVE JoinWords(_)
JoinWords(ws) ==
  IF ws = <<>> THEN <<>>
  ELSE IF Len(ws) = 1 THEN Head(ws)
  ELSE Head(ws) \o <<SP>> \o JoinWords(Tail(ws))

IsLine(l) ==
  \/ \E k \in 0..MaxLineLen : l \in [1..k -> LexAlphabet]
  \/ \E k \in 0..MaxWords : \E ws \in [1..k -> LexWords] : l = JoinWords(ws)

\* single-token lines for the expander: every character sequence up to
\* MaxExpLen over ExpAlphabet, and every concatenation of up to MaxChunks
\* chunks of ExpChunks
ExpAlphabet == {"A", DOLLAR, LBRACE, RBRACE, BS, SQ, DQ}

ExpChunks ==
  { <<"A">>, <<"B">>, <<DOLLAR, "A">>, <<DOLLAR, "B">>,
    <<DOLLAR, LBRACE, "A", RBRACE>>, <<DOLLAR, LBRACE, "B", RBRACE>>,
    <<BS, DOLLAR>>, <<DQ>> }

RECURSIVE JoinChunks(_)
JoinChunks(cs) == IF cs = <<>> THEN <<>> ELSE Head(cs) \o JoinChunks(Tail(cs))

IsExpLine(l) ==
  \/ \E k \in 0..MaxExpLen : l \in [1..k -> ExpAlphabet]
  \/ \E k \in 0..MaxChunks : \E cs \in [1..k -> ExpChunks] : l = JoinChunks(cs)

\* single-token lines with a reference after an escaped backslash, unquoted
\* and in double quotes
EscRefs == {<<DOLLAR, "A">>, <<DOLLAR, "A", "B">>, <<DOLLAR, LBRACE, "A", RBRACE>>}

IsEscLine(l) ==
  \E pre \in {<<>>, <<"A">>} : \E ref \in EscRefs : \E suf \in {<<>>, <<"A">>} :
    LET body == pre \o <<BS, BS>> \o ref \o suf
    IN l = body \/ l = <<DQ>> \o body \o <<DQ>>

NameA == <<"A">>
NameB == <<"B">>
NameAB == <<"A", "B">>

EnvAB == (NameA :> <<"1">>) @@ (NameB :> <<"2">>)
EnvLong == (NameA :> <<"1">>) @@ (NameAB :> <<"2">>)

Envs == {EnvAB, EnvLong}

\* an Environment in which the value of A is itself the text of a reference
EnvRef == (NameA :> <<DOLLAR, "B">>) @@ (NameB :> <<"2">>)

\* the lines expanded under EnvRef
IsRefLine(l) ==
  \E k \in 0..MaxRefChunks : \E cs \in [1..k -> ExpChunks] : l = JoinChunks(cs)
LexEnvs == {EnvAB}

\* lines of up to MaxOpWords words whose piece is an operator or a | although
\* the word is quoted, escaped or a reference, with plain words and plain
\* operators, under an Environment whose X is an operator
NameX == <<"X">>
EnvOp == (NameX :> <<GT>>)

OpLineWords ==
  { <<"a">>, <<"f">>, <<GT>>, <<DQ, GT, DQ>>, <<SQ, GT, SQ>>, <<BS, GT>>,
    <<DOLLAR, "X">>, <<DQ, "2", GT, DQ>>, <<SQ, GT, GT, SQ>>, <<SQ, LT, SQ>>,
    <<DQ, PIPE, DQ>> }

IsOpLine(l) ==
  \E k \in 0..MaxOpWords : \E ws \in [1..k -> OpLineWords] : l = JoinWords(ws)

\* one-word lines made of up to MaxMixedParts adjacent parts, quoted and
\* unquoted
MixedParts ==
  { <<"a">>, <<DOLLAR, "X">>, <<SQ, "a", SQ>>, <<SQ, DOLLAR, "X", SQ>>,
    <<DQ, "a", DQ>>, <<DQ, DOLLAR, "X", DQ>>, <<DQ, "a", SP, "a", DQ>>, <<SQ, SQ>> }

IsMixedLine(l) ==
  \E k \in 0..MaxMixedParts : \E cs \in [1..k -> MixedParts] : l = JoinChunks(cs)

\* piece lists of produce_command: a command name followed by up to MaxRest
\* pieces, all of one family of words
OpLt == <<LT>>
Op0Lt == <<"0", LT>>
OpGt == <<GT>>
Op1Gt == <<"1", GT>>
OpGtGt == <<GT, GT>>
Op1GtGt == <<"1", GT, GT>>
Op2Gt == <<"2", GT>>
Op2GtGt == <<"2", GT, GT>>
Op0Gt == <<"0", GT>>
Op3Gt == <<"3", GT>>
Op0GtGt == <<"0", GT, GT>>
Op3GtGt == <<"3", GT, GT>>
\* 4294967296 = u32::MAX + 1
OpBigGt == <<"4", "2", "9", "4", "9", "6", "7", "2", "9", "6", GT>>
WordF == <<"f">>
WordG == <<"g">>

PieceFamilies ==
  { {WordF, WordG, OpLt, Op0Lt, OpGt, Op1Gt, OpGtGt, Op1GtGt},
    {WordF, WordG, Op2Gt, Op2GtGt, OpGt, OpGtGt, Op0Gt, Op3Gt},
    {WordF, OpLt, OpGt, Op2GtGt, Op0Gt, Op3Gt, Op0GtGt},
    {WordF, OpLt, Op0Lt, Op0Gt, Op2Gt, Op2GtGt, Op1Gt, Op1GtGt},
    {WordF, OpGt, Op3Gt, Op3GtGt, OpBigGt} }

NameWords == {<<"c">>, OpGt}

\* the lines given to a sequence of process calls on one InputProcessor
IsCallLine(l) ==
  \E k \in 0..MaxCallWords :
     \E ws \in [1..k -> LexWords \cup {<<DQ, "a">>}] : l = JoinWords(ws)

IsPieceSeq(ps) ==
  \/ ps = <<>>
  \/ \E F \in PieceFamilies : \E n \in NameWords : \E k \in 0..MaxRest :
        \E r \in [1..k -> F] : ps = <<n>> \o r

(***************************************************************************)
(* InputProcessor::process, one action per step of its body                *)
(***************************************************************************)
NotRun == Err(NoError)

\* the REPL is not part of the run
NoRepl ==
  /\ read = "none"
  /\ executed = <<>>
  /\ reported = "none"

InitRest ==
  /\ raw = NotRun
  /\ parts = <<>>
  /\ segs = <<>>
  /\ pieces = <<>>
  /\ cmd = NotRun
  /\ cmds = <<>>
  /\ result = NotRun

Init ==
  /\ \/ IsLine(line) /\ env \in LexEnvs
     \/ IsOpLine(line) /\ env = EnvOp
     \/ IsMixedLine(line) /\ env = EnvOp
  /\ pc = "start"
  /\ calls = 0
  /\ NoRepl
  /\ InitRest

InitExpand ==
  /\ \/ IsExpLine(line) /\ env \in Envs
     \/ IsEscLine(line) /\ env \in Envs
     \/ IsRefLine(line) /\ env = EnvRef
  /\ pc = "start"
  /\ calls = 0
  /\ NoRepl
  /\ InitRest

InitProduce ==
  /\ line = <<>>
  /\ env = EmptyEnv
  /\ pc = "produce"
  /\ raw = NotRun
  /\ parts = <<>>
  /\ segs = <<>>
  /\ IsPieceSeq(pieces)
  /\ cmd = NotRun
  /\ cmds = <<>>
  /\ result = NotRun
  /\ calls = 0
  /\ NoRepl

\* let raw = Tokenizer::tokenize(line)?;
TokenizeStep ==
  /\ pc = "start"
  /\ raw' = Tokenize(line)
  /\ IF raw'.ok
     THEN pc' = "split" /\ result' = result
     ELSE pc' = "done" /\ result' = Err(raw'.err)
  /\ UNCHANGED <<read, executed, reported, calls, line, env, parts, segs, pieces, cmd, cmds>>

\* let parts = split_on_pipes_tokens(&raw); let mut cmds = Vec::with_capacity(..);
SplitStep ==
  /\ pc = "split"
  /\ parts' = split_on_pipes_tokens(raw.val)
  /\ cmds' = <<>>
  /\ pc' = "loop"
  /\ UNCHANGED <<read, executed, reported, calls, line, env, raw, segs, pieces, cmd, result>>

\* variant: a failing segment returns the error together with the
\* descriptors of the segments before it
SegmentStep_KeepPartial ==
  /\ pc = "loop"
  /\ Len(segs) < Len(parts)
  /\ LET raw_part == parts[Len(segs) + 1]
         tokens == QuoteHandler_handle(raw_part)
         ps == IF tokens.ok THEN expand_tokens(env, tokens.val) ELSE Err(tokens.err)
         c == IF ps.ok THEN produce_command(ps.val) ELSE Err(ps.err)
     IN /\ segs' = Append(segs, [raw |-> raw_part, tokens |-> tokens.val, pieces |-> ps.val])
        /\ pieces' = ps.val
        /\ cmd' = c
        /\ IF c.ok
           THEN cmds' = Append(cmds, c.val) /\ pc' = "loop" /\ result' = result
           ELSE cmds' = cmds /\ pc' = "done"
                /\ result' = [ok |-> FALSE, val |-> cmds, err |-> c.err]
  /\ UNCHANGED <<read, executed, reported, calls, line, env, raw, parts>>

\* one iteration of `for raw_part in parts { ... }`
SegmentStep ==
  /\ pc = "loop"
  /\ Len(segs) < Len(parts)
  /\ LET raw_part == parts[Len(segs) + 1]
         tokens == QuoteHandler_handle(raw_part)
         ps == IF tokens.ok THEN expand_tokens(env, tokens.val) ELSE Err(tokens.err)
         c == IF ps.ok THEN produce_command(ps.val) ELSE Err(ps.err)
     IN /\ segs' = Append(segs, [raw |-> raw_part, tokens |-> tokens.val, pieces |-> ps.val])
        /\ pieces' = ps.val
        /\ cmd' = c
        /\ IF c.ok
           THEN cmds' = Append(cmds, c.val) /\ pc' = "loop" /\ result' = result
           ELSE cmds' = <<>> /\ pc' = "done" /\ result' = Err(c.err)
  /\ UNCHANGED <<read, executed, reported, calls, line, env, raw, parts>>

\* variant: a successful call exports a variable
ReturnStep_Export ==
  /\ pc = "loop"
  /\ Len(segs) = Len(parts)
  /\ result' = Ok(cmds)
  /\ pc' = "done"
  /\ env' = (env @@ (<<"X">> :> <<"1">>))
  /\ UNCHANGED <<read, executed, reported, calls, line, raw, parts, segs, pieces, cmd, cmds>>

\* Ok(cmds)
ReturnStep ==
  /\ pc = "loop"
  /\ Len(segs) = Len(parts)
  /\ result' = Ok(cmds)
  /\ pc' = "done"
  /\ UNCHANGED <<read, executed, reported, calls, line, env, raw, parts, segs, pieces, cmd, cmds>>

\* the caller calls process again, on the same InputProcessor and Environment;
\* the locals of the finished call are gone
CallStep ==
  /\ pc = "done"
  /\ calls < MaxCalls
  /\ calls' = calls + 1
  /\ IsCallLine(line')
  /\ pc' = "start"
  /\ raw' = NotRun
  /\ parts' = <<>>
  /\ segs' = <<>>
  /\ pieces' = <<>>
  /\ cmd' = NotRun
  /\ cmds' = <<>>
  /\ result' = NotRun
  /\ UNCHANGED <<read, executed, reported, env>>

InitCalls ==
  /\ IsCallLine(line)
  /\ env \in Envs
  /\ pc = "start"
  /\ calls = 0
  /\ NoRepl
  /\ InitRest

\* InputProcessor::process as a function of its two parameters
RECURSIVE ProcessParts(_, _, _, _)
ProcessParts(e, ps, i, out) ==
  IF i > Len(ps) THEN Ok(out)
  ELSE LET tokens == QuoteHandler_handle(ps[i])
           pcs == IF tokens.ok THEN expand_tokens(e, tokens.val) ELSE Err(tokens.err)
           c == IF pcs.ok THEN produce_command(pcs.val) ELSE Err(pcs.err)
       IN IF c.ok THEN ProcessParts(e, ps, i + 1, Append(out, c.val)) ELSE Err(c.err)

process(l, e) ==
  LET r == Tokenize(l) IN
  IF r.ok THEN ProcessParts(e, split_on_pipes_tokens(r.val), 1, <<>>) ELSE Err(r.err)

(***************************************************************************)
(* Repl::run.  The InputProcessor of the REPL holds its Environment and    *)
(* process(input) reads it; that version of the processor is not in the    *)
(* sources, the two-parameter process stands for it.                       *)
(***************************************************************************)
NL == "\n"
EQ == "="

Whitespace == {SP, TAB, NL}

RECURSIVE TrimStart(_)
TrimStart(s) == IF s # <<>> /\ Head(s) \in Whitespace THEN TrimStart(Tail(s)) ELSE s

RECURSIVE TrimEnd(_)
TrimEnd(s) ==
  IF s # <<>> /\ s[Len(s)] \in Whitespace THEN TrimEnd(SubSeq(s, 1, Len(s) - 1)) ELSE s

\* str::trim
Trim(s) == TrimEnd(TrimStart(s))

WordExit == <<"e", "x", "i", "t">>
WordHelp == <<"h", "e", "l", "p">>

\* input.find('=')
EqPos(s) ==
  IF \E i \in 1..Len(s) : s[i] = EQ
  THEN CHOOSE i \in 1..Len(s) : s[i] = EQ /\ \A j \in 1..i - 1 : s[j] # EQ
  ELSE 0

is_variable_assignment(input) ==
  /\ EqPos(input) # 0
  /\ LET name_part == SubSeq(input, 1, EqPos(input) - 1) IN
     /\ name_part # <<>>
     /\ \A i \in 1..Len(name_part) : IsIdentChar(name_part[i])
     /\ IsIdentStart(name_part[1])

EnvSet(e, k, v) == [n \in DOMAIN e \cup {k} |-> IF n = k THEN v ELSE e[n]]

\* the lines the terminal delivers, each with its line end; the empty
\* string is a read of zero bytes (end of input)
ReplInputs ==
  { <<>>,
    <<NL>>,
    <<SP, NL>>,
    WordExit \o <<NL>>,
    <<SP>> \o WordExit \o <<SP, NL>>,
    WordHelp \o <<NL>>,
    <<"A", EQ, "a", NL>>,
    <<"a", NL>>,
    <<"a", SP, LT, SP, "f", NL>>,
    <<DQ, "a", NL>>,
    <<PIPE, SP, "a", NL>>,
    <<DQ>> \o WordExit \o <<DQ, SP, "a", NL>>,
    <<"a", SP, PIPE, SP, DQ>> \o WordExit \o <<DQ, NL>>,
    <<DOLLAR, "A", NL>> }

EnvExit == (NameA :> WordExit)

InitRepl ==
  /\ pc = "read"
  /\ line = <<>>
  /\ env \in {EnvAB, EnvExit}
  /\ calls = 0
  /\ read = "none"
  /\ executed = <<>>
  /\ reported = "none"
  /\ InitRest

\* variant: a read of zero bytes ends the loop
ReplReadOk_EofExits ==
  /\ pc = "read"
  /\ calls < MaxReads
  /\ calls' = calls + 1
  /\ read' = "ok"
  /\ \E input \in ReplInputs :
       /\ line' = input
       /\ LET trimmed == Trim(input) IN
          IF trimmed = <<>>
          THEN /\ pc' = IF input = <<>> THEN "exited" ELSE "read"
               /\ reported' = "none" /\ env' = env
          ELSE IF trimmed = WordExit
          THEN pc' = "exited" /\ reported' = "Goodbye!" /\ env' = env
          ELSE IF trimmed = WordHelp
          THEN pc' = "read" /\ reported' = "help" /\ env' = env
          ELSE IF is_variable_assignment(trimmed)
          THEN /\ pc' = "read"
               /\ \/ /\ env' = EnvSet(env, SubSeq(trimmed, 1, EqPos(trimmed) - 1),
                                       SubSeq(trimmed, EqPos(trimmed) + 1, Len(trimmed)))
                     /\ reported' = "Set"
                  \/ /\ env' = env
                     /\ reported' = "Failed to set environment variable"
          ELSE pc' = "process" /\ reported' = "none" /\ env' = env
  /\ UNCHANGED <<raw, parts, segs, pieces, cmd, cmds, result, executed>>

\* io::stdin().read_line(&mut input) returns Ok: the checks made on the
\* trimmed input before it is parsed
ReplReadOk ==
  /\ pc = "read"
  /\ calls < MaxReads
  /\ calls' = calls + 1
  /\ read' = "ok"
  /\ \E input \in ReplInputs :
       /\ line' = input
       /\ LET trimmed == Trim(input) IN
          IF trimmed = <<>>
          THEN pc' = "read" /\ reported' = "none" /\ env' = env
          ELSE IF trimmed = WordExit
          THEN pc' = "exited" /\ reported' = "Goodbye!" /\ env' = env
          ELSE IF trimmed = WordHelp
          THEN pc' = "read" /\ reported' = "help" /\ env' = env
          ELSE IF is_variable_assignment(trimmed)
          THEN /\ pc' = "read"
               /\ \/ /\ env' = EnvSet(env, SubSeq(trimmed, 1, EqPos(trimmed) - 1),
                                       SubSeq(trimmed, EqPos(trimmed) + 1, Len(trimmed)))
                     /\ reported' = "Set"
                  \/ /\ env' = env
                     /\ reported' = "Failed to set environment variable"
          ELSE pc' = "process" /\ reported' = "none" /\ env' = env
  /\ UNCHANGED <<raw, parts, segs, pieces, cmd, cmds, result, executed>>

\* read_line returns Err
ReplReadErr ==
  /\ pc = "read"
  /\ calls < MaxReads
  /\ calls' = calls + 1
  /\ read' = "err"
  /\ line' = <<>>
  /\ reported' = "Error reading input"
  /\ pc' = "exited"
  /\ UNCHANGED <<env, raw, parts, segs, pieces, cmd, cmds, result, executed>>

\* variant: a parse error ends the loop
ReplProcess_ExitOnError ==
  /\ pc = "process"
  /\ result' = process(Trim(line), env)
  /\ IF result'.ok
     THEN cmds' = result'.val /\ pc' = "commands" /\ reported' = reported
     ELSE cmds' = <<>> /\ pc' = "exited" /\ reported' = "parse error"
  /\ UNCHANGED <<line, env, raw, parts, segs, pieces, cmd, calls, read, executed>>

\* match self.input_processor.process(input)
ReplProcess ==
  /\ pc = "process"
  /\ result' = process(Trim(line), env)
  /\ IF result'.ok
     THEN cmds' = result'.val /\ pc' = "commands" /\ reported' = reported
     ELSE cmds' = <<>> /\ pc' = "read" /\ reported' = "parse error"
  /\ UNCHANGED <<line, env, raw, parts, segs, pieces, cmd, calls, read, executed>>

\* one iteration of `for pc in parsed_cmds`
ReplCommand ==
  /\ pc = "commands"
  /\ cmds # <<>>
  /\ LET c == Head(cmds) IN
     IF c.name = WordExit /\ c.args = <<>>
     THEN pc' = "exited" /\ reported' = "Goodbye!" /\ executed' = executed /\ cmds' = <<>>
     ELSE IF c.name = WordHelp /\ c.args = <<>>
     THEN pc' = pc /\ reported' = "help" /\ executed' = executed /\ cmds' = Tail(cmds)
     ELSE /\ pc' = pc
          /\ cmds' = Tail(cmds)
          /\ \/ /\ c.stdin.some
                /\ reported' = "Error reading stdin file"
                /\ executed' = executed
             \/ /\ reported' = reported
                /\ executed' = Append(executed, c.name)
  /\ UNCHANGED <<line, env, raw, parts, segs, pieces, cmd, result, calls, read>>

\* the for loop is over: back to the head of `loop`
ReplNextLine ==
  /\ pc = "commands"
  /\ cmds = <<>>
  /\ pc' = "read"
  /\ UNCHANGED <<line, env, raw, parts, segs, pieces, cmd, cmds, result, calls, read,
                 executed, reported>>

NextRepl == ReplReadOk \/ ReplReadErr \/ ReplProcess \/ ReplCommand \/ ReplNextLine

SpecRepl == InitRepl /\ [][NextRepl]_vars

\* CommandProducer::produce_command called directly on a piece list
ProduceStep ==
  /\ pc = "produce"
  /\ cmd' = produce_command(pieces)
  /\ pc' = "done"
  /\ UNCHANGED <<read, executed, reported, calls, line, env, raw, parts, segs, pieces, cmds, result>>

Next == TokenizeStep \/ SplitStep \/ SegmentStep \/ ReturnStep

NextProduce == ProduceStep

NextCalls == TokenizeStep \/ SplitStep \/ SegmentStep \/ ReturnStep \/ CallStep

Spec == Init /\ [][Next]_vars

SpecExpand == InitExpand /\ [][Next]_vars

SpecProduce == InitProduce /\ [][NextProduce]_vars

SpecCalls == InitCalls /\ [][NextCalls]_vars

(***************************************************************************)
(* Properties                                                              *)
(***************************************************************************)

\* the quote state in which a scan of l from index i, started in state q, ends
RECURSIVE QuoteStateAtEnd(_, _, _)
QuoteStateAtEnd(l, i, q) ==
  IF i > Len(l) THEN q
  ELSE IF q = NoQuote /\ l[i] \in {SQ, DQ} THEN QuoteStateAtEnd(l, i + 1, l[i])
  ELSE IF q # NoQuote /\ l[i] = q THEN QuoteStateAtEnd(l, i + 1, NoQuote)
  ELSE IF l[i] = BS THEN QuoteStateAtEnd(l, i + 2, q)
  ELSE QuoteStateAtEnd(l, i + 1, q)

\* C1: tokenize fails, with Quote("unclosed quote"), exactly when the scan
\* ends with a single or double quote still open, and succeeds otherwise;
\* process then returns that Quote error and no descriptor.
C1_UnclosedQuote ==
  /\ pc # "start" =>
       /\ ~raw.ok <=> QuoteStateAtEnd(line, 1, NoQuote) # NoQuote
       /\ ~raw.ok => raw.err = QuoteError
  /\ (pc = "done" /\ ~raw.ok) =>
       /\ ~result.ok
       /\ result.err = QuoteError
       /\ result.val = <<>>
       /\ cmds = <<>>

\* the line  a "a  has been processed
C1_Witness ==
  /\ pc = "done"
  /\ line = <<"a", SP, DQ, "a">>
  /\ result = Err(QuoteError)

\* the indices of the raw tokens that are exactly "|"
PipeIdx(r) == {i \in 1..Len(r) : r[i] = <<PIPE>>}

\* the index of the j-th "|" token
NthPipe(r, j) ==
  CHOOSE i \in PipeIdx(r) : Cardinality({m \in PipeIdx(r) : m <= i}) = j

\* the tokens between the (j-1)-th and the j-th "|" token (line start and
\* line end standing for the 0-th and the last+1-th)
SegmentOf(r, j) ==
  LET from == IF j = 1 THEN 1 ELSE NthPipe(r, j - 1) + 1
      to == IF j = Cardinality(PipeIdx(r)) + 1 THEN Len(r) ELSE NthPipe(r, j) - 1
  IN SubSeq(r, from, to)

\* C2: the line is split exactly at the raw tokens equal to "|" (a token that
\* only contains | splits nothing), and a successful result holds one
\* descriptor per segment, in source order.
C2_SplitAtPipeTokens ==
  (pc \in {"loop", "done"} /\ raw.ok) =>
    LET r == raw.val
        k == Cardinality(PipeIdx(r))
    IN /\ Len(parts) \in {k, k + 1}
       /\ \A j \in 1..Len(parts) : parts[j] = SegmentOf(r, j)
       /\ (pc = "done" /\ result.ok) =>
            /\ Len(result.val) = Len(parts)
            /\ \A j \in 1..Len(parts) :
                 /\ parts[j] # <<>>
                 /\ result.val[j].name = expand_token(env, HandleOne(parts[j][1]))

\* the line  "a|a" | a  has been processed into two descriptors
C2_Witness ==
  /\ pc = "done"
  /\ line = JoinWords(<< <<DQ, "a", PIPE, "a", DQ>>, <<PIPE>>, <<"a">> >>)
  /\ result.ok
  /\ Len(result.val) = 2
  /\ result.val[1].name = <<"a", PIPE, "a">>
  /\ result.val[2].name = <<"a">>

\* C3: the group after the last "|" is dropped when empty, without error; an
\* empty group before a "|" is kept and makes process return EmptyCommand.
C3_TrailingEmptyGroupDropped ==
  (pc = "done" /\ raw.ok) =>
    LET r == raw.val
        k == Cardinality(PipeIdx(r))
    IN /\ Len(parts) = IF SegmentOf(r, k + 1) = <<>> THEN k ELSE k + 1
       /\ (\E j \in 1..k : SegmentOf(r, j) = <<>>) =>
            /\ \E j \in 1..k : parts[j] = <<>>
            /\ result = Err(EmptyCommand)
       /\ (\A j \in 1..k : SegmentOf(r, j) # <<>>) =>
            /\ result.ok
            /\ Len(result.val) = Len(parts)

\* the line  a |  has been processed into one descriptor
C3_Witness ==
  /\ pc = "done"
  /\ line = <<"a", SP, PIPE>>
  /\ result.ok
  /\ Len(result.val) = 1

\* C4: every descriptor of a successful result has a non-empty name.
C4_NameNonEmpty ==
  (pc = "done" /\ result.ok) =>
    \A i \in 1..Len(result.val) : result.val[i].name # <<>>

\* the eight operators the specification lists
ListedOps == {OpLt, Op0Lt, OpGt, Op1Gt, OpGtGt, Op1GtGt, Op2Gt, Op2GtGt}

\* a piece written <digits>> or <digits>>>, and the digits and number of it
FdDigits(p) ==
  IF EndsWith(p, <<GT, GT>>) THEN Take(p, Len(p) - 2)
  ELSE IF EndsWith(p, <<GT>>) THEN Take(p, Len(p) - 1)
  ELSE <<>>

IsFdForm(p) ==
  /\ FdDigits(p) # <<>>
  /\ \A i \in 1..Len(FdDigits(p)) : FdDigits(p)[i] \in Digits

FdNumber(p) == DigitsValue(FdDigits(p), 0)

\* a piece in <digits>> form that acts as an operator of stream 0, 1 or 2
IsNumericOp(p) ==
  /\ IsFdForm(p)
  /\ \/ FdNumber(p) = 0 /\ ~EndsWith(p, <<GT, GT>>)
     \/ FdNumber(p) \in {1, 2}

\* numeric = FALSE: the operators are the listed ones; numeric = TRUE: the
\* <digits>> forms of descriptor 0, 1 and 2 are operators as well
IsOp(p, numeric) == p \in ListedOps \/ (numeric /\ IsNumericOp(p))

\* a <digits>> form that is kept in args together with the piece after it:
\* its number fits in 32 bits and it is no operator
IsKeptFd(p, numeric) ==
  /\ IsFdForm(p)
  /\ ~OverflowsU32(FdDigits(p))
  /\ IF numeric THEN ~IsOp(p, TRUE) ELSE FdNumber(p) >= 3

StreamOfOp(p) ==
  IF p \in {OpLt, Op0Lt} THEN "stdin"
  ELSE IF p \in {OpGt, OpGtGt} THEN "stdout"
  ELSE IF FdNumber(p) = 0 THEN "stdin"
  ELSE IF FdNumber(p) = 1 THEN "stdout"
  ELSE "stderr"

AppendOfOp(p) == EndsWith(p, <<GT, GT>>)

\* the role of each piece after the name: "op" for an operator, "target" for
\* the piece an operator consumes, "kept" and "kepttarget" for a <digits>>
\* form that stays in args and the piece after it, "arg" for every other piece
RECURSIVE Roles(_, _, _)
Roles(rest, i, numeric) ==
  IF i > Len(rest) THEN <<>>
  ELSE IF IsOp(rest[i], numeric)
       THEN (IF i < Len(rest) THEN <<"op", "target">> ELSE <<"op">>)
            \o Roles(rest, i + 2, numeric)
  ELSE IF IsKeptFd(rest[i], numeric)
       THEN (IF i < Len(rest) THEN <<"kept", "kepttarget">> ELSE <<"kept">>)
            \o Roles(rest, i + 2, numeric)
  ELSE <<"arg">> \o Roles(rest, i + 1, numeric)

RECURSIVE ArgsOf(_, _, _)
ArgsOf(rest, roles, i) ==
  IF i > Len(rest) THEN <<>>
  ELSE (IF roles[i] \in {"arg", "kept", "kepttarget"} THEN <<rest[i]>> ELSE <<>>)
       \o ArgsOf(rest, roles, i + 1)

OpsOfStream(rest, roles, s) ==
  {i \in 1..Len(rest) : roles[i] = "op" /\ StreamOfOp(rest[i]) = s}

TargetAfter(rest, i) == IF i < Len(rest) THEN Some(rest[i + 1]) ELSE None

StreamField(c, s) ==
  IF s = "stdin" THEN c.stdin ELSE IF s = "stdout" THEN c.stdout ELSE c.stderr

StreamAppend(c, s) ==
  IF s = "stdin" THEN FALSE
  ELSE IF s = "stdout" THEN c.append_stdout ELSE c.append_stderr

Streams == {"stdin", "stdout", "stderr"}

OperatorMapping(numeric) ==
  (pc = "done" /\ cmd.ok) =>
    LET rest == Tail(pieces)
        roles == Roles(rest, 1, numeric)
        c == cmd.val
    IN /\ c.name = Head(pieces)
       /\ c.args = ArgsOf(rest, roles, 1)
       /\ \A s \in Streams :
            LET I == OpsOfStream(rest, roles, s) IN
            /\ I = {} => (StreamField(c, s) = None /\ ~StreamAppend(c, s))
            /\ Cardinality(I) = 1 =>
                 LET i == CHOOSE x \in I : TRUE IN
                 /\ StreamField(c, s) = TargetAfter(rest, i)
                 /\ s # "stdin" => (StreamAppend(c, s) = AppendOfOp(rest[i]))

C6_LastRedirectionWins ==
  (pc = "done" /\ cmd.ok) =>
    LET rest == Tail(pieces)
        roles == Roles(rest, 1, TRUE)
        c == cmd.val
    IN \A s \in Streams :
         LET I == OpsOfStream(rest, roles, s) IN
         Cardinality(I) >= 2 =>
           LET last == CHOOSE x \in I : \A y \in I : y <= x IN
           /\ StreamField(c, s) = TargetAfter(rest, last)
           /\ s # "stdin" => (StreamAppend(c, s) = AppendOfOp(rest[last]))
           /\ c.args = ArgsOf(rest, roles, 1)
           /\ \A i \in I : roles[i] = "op" /\ (i < Len(rest) => roles[i + 1] = "target")

\* the pieces  c > f >> g  have been turned into a descriptor
C6_Witness ==
  /\ pc = "done"
  /\ pieces = <<<<"c">>, OpGt, WordF, OpGtGt, WordG>>
  /\ cmd.ok
  /\ cmd.val.stdout = Some(WordG)
  /\ cmd.val.append_stdout
  /\ cmd.val.args = <<>>

\* the tokens of the segments processed so far, as pairs <<segment, index>>
TokenIdx == {<<k, i>> \in (1..Len(segs)) \X (1..MaxLineLen + MaxExpLen + 4 * MaxChunks) :
               i <= Len(segs[k].raw)}

RawOf(t) == segs[t[1]].raw[t[2]]
TokenOf(t) == segs[t[1]].tokens[t[2]]
PieceOf(t) == segs[t[1]].pieces[t[2]]

IsSingleQuoted(r) == Len(r) >= 2 /\ r[1] = SQ /\ r[Len(r)] = SQ

\* C7: the piece of a token wholly enclosed in single quotes is its interior
\* text, for every Environment.
C7_RawIsLiteral ==
  \A t \in TokenIdx :
    IsSingleQuoted(RawOf(t)) =>
      /\ PieceOf(t) = SubSeq(RawOf(t), 2, Len(RawOf(t)) - 1)
      /\ \A e \in Envs : expand_token(e, TokenOf(t)) = PieceOf(t)

\* the line  '$A'  has been expanded with A defined
C7_Witness ==
  /\ line = <<SQ, DOLLAR, "A", SQ>>
  /\ NameA \in DOMAIN env
  /\ pc = "done"
  /\ result.ok
  /\ segs[1].pieces = << <<DOLLAR, "A">> >>

\* the source text of a Weak or Full token that the unescape rule reads
SourceBody(t) ==
  IF TokenOf(t).mode = "Weak" THEN SubSeq(RawOf(t), 2, Len(RawOf(t)) - 1) ELSE RawOf(t)

\* the piece made from source text x of a token of the mode of t
PieceFrom(t, x) ==
  expand_vars(env, IF TokenOf(t).mode = "Weak"
                   THEN unescape_double_quoted(x) ELSE unescape_unquoted(x))

\* C8: in a Weak or Full token whose first backslash stands before a $, that
\* $ starts no substitution: the piece is the piece of the text before, a
\* literal $, the identifier characters that follow it unchanged, and the
\* piece of the rest, whatever the Environment defines.
C8_EscapedDollarIsLiteral ==
  \A t \in TokenIdx :
    LET b == SourceBody(t)
        B == {j \in 1..Len(b) : b[j] = BS}
    IN (TokenOf(t).mode # "Raw" /\ B # {}) =>
         LET j == CHOOSE x \in B : \A y \in B : x <= y
             after == SubSeq(b, j + 2, Len(b))
             n == IdentEnd(after, 1) - 1
         IN (j < Len(b) /\ b[j + 1] = DOLLAR) =>
              PieceOf(t) = PieceFrom(t, SubSeq(b, 1, j - 1)) \o <<DOLLAR>>
                           \o SubSeq(after, 1, n)
                           \o PieceFrom(t, SubSeq(after, n + 1, Len(after)))

\* the line  "\$A"  has been expanded with A defined
C8_Witness ==
  /\ line = <<DQ, BS, DOLLAR, "A", DQ>>
  /\ NameA \in DOMAIN env
  /\ pc = "done"
  /\ result.ok
  /\ segs[1].tokens[1].mode = "Weak"
  /\ segs[1].pieces = << <<DOLLAR, "A">> >>

\* the lengths of the prefixes of run that are names defined in e
DefinedPrefixes(e, run) == {n \in 1..Len(run) : SubSeq(run, 1, n) \in DOMAIN e}

\* what a bare $ followed by the maximal identifier run `run` becomes
BareReference(e, run) ==
  LET D == DefinedPrefixes(e, run) IN
  IF D = {} THEN <<DOLLAR>> \o run
  ELSE LET n == CHOOSE x \in D : \A y \in D : y <= x
       IN e[SubSeq(run, 1, n)] \o SubSeq(run, n + 1, Len(run))

IsIdentifier(n) ==
  /\ n # <<>>
  /\ IsIdentStart(n[1])
  /\ \A i \in 1..Len(n) : IsIdentChar(n[i])

\* the name N when v is exactly ${N}, else the empty sequence
BracedName(v) ==
  IF Len(v) >= 4 /\ v[1] = DOLLAR /\ v[2] = LBRACE /\ v[Len(v)] = RBRACE
  THEN SubSeq(v, 3, Len(v) - 1) ELSE <<>>

\* the name N when v is exactly $N, else the empty sequence
BareName(v) ==
  IF Len(v) >= 2 /\ v[1] = DOLLAR THEN SubSeq(v, 2, Len(v)) ELSE <<>>

EmptySegments(r) == {j \in 1..Cardinality(PipeIdx(r)) : SegmentOf(r, j) = <<>>}

\* C11: a failing process returns the error alone, with no descriptor, also
\* when earlier segments were produced; the error is Quote when the line has
\* an unclosed quote (no segment is then looked at), and else EmptyCommand,
\* raised at the leftmost empty segment.
C11_FirstErrorNoPartialResult ==
  pc = "done" =>
    LET open == QuoteStateAtEnd(line, 1, NoQuote) # NoQuote IN
    /\ result.ok <=> (~open /\ EmptySegments(raw.val) = {})
    /\ ~result.ok =>
         /\ result.val = <<>>
         /\ cmds = <<>>
         /\ IF open
            THEN result.err = QuoteError /\ segs = <<>> /\ parts = <<>>
            ELSE LET E == EmptySegments(raw.val)
                     j == CHOOSE x \in E : \A y \in E : x <= y
                 IN /\ result.err = EmptyCommand
                    /\ Len(segs) = j
                    /\ segs[j].raw = <<>>
                    /\ \A m \in 1..j - 1 : segs[m].raw # <<>>

\* the line  a | | a  has failed at its second segment, after the first
\* segment was produced
C11_Witness ==
  /\ pc = "done"
  /\ line = JoinWords(<< <<"a">>, <<PIPE>>, <<PIPE>>, <<"a">> >>)
  /\ result = Err(EmptyCommand)
  /\ Len(segs) = 2
  /\ segs[1].pieces = << <<"a">> >>

\* C12: the only errors process returns are Quote and EmptyCommand;
\* QuoteHandler::handle and Expander::expand_tokens return Ok on the tokens
\* of every segment, so no Expansion or Tokenization error is ever built.
C12_OnlyQuoteAndEmptyCommand ==
  /\ raw.err \in {NoError, QuoteError}
  /\ cmd.err \in {NoError, EmptyCommand}
  /\ result.err \in {NoError, QuoteError, EmptyCommand}
  /\ (pc = "done" /\ ~result.ok) => result.err \in {QuoteError, EmptyCommand}
  /\ \A k \in 1..Len(segs) :
       /\ QuoteHandler_handle(segs[k].raw).ok
       /\ QuoteHandler_handle(segs[k].raw).val = segs[k].tokens
       /\ expand_tokens(env, segs[k].tokens).ok
       /\ expand_tokens(env, segs[k].tokens).val = segs[k].pieces

\* the line  "" | | a  : a token that expands to the empty string has passed
\* the QuoteHandler and the Expander, and process has failed afterwards
C12_Witness ==
  /\ pc = "done"
  /\ line = JoinWords(<< <<DQ, DQ>>, <<PIPE>>, <<PIPE>>, <<"a">> >>)
  /\ segs[1].pieces = << <<>> >>
  /\ result = Err(EmptyCommand)

RemoveAt(s, i, n) == SubSeq(s, 1, i - 1) \o SubSeq(s, i + n, Len(s))

InsertAt(s, k, x) == SubSeq(s, 1, k) \o x \o SubSeq(s, k + 1, Len(s))

SameStreams(a, b) ==
  /\ a.stdin = b.stdin
  /\ a.stdout = b.stdout /\ a.append_stdout = b.append_stdout
  /\ a.stderr = b.stderr /\ a.append_stderr = b.append_stderr

\* a piece written <digits>> or <digits>>> whose number is 3 or more
IsFdAboveTwo(p) == IsFdForm(p) /\ FdNumber(p) >= 3

\* the n pieces from index i of the pieces after the name are appended to
\* args verbatim and have no other effect: the descriptor is the one of the
\* piece list without them, with these pieces put into args at their place
KeptVerbatim(i, n) ==
  LET rest == Tail(pieces)
      roles == Roles(rest, 1, TRUE)
      c0 == produce_command(<<Head(pieces)>> \o RemoveAt(rest, i, n)).val
      before == Len(ArgsOf(SubSeq(rest, 1, i - 1), roles, 1))
      kept == SubSeq(rest, i, IF i + n - 1 <= Len(rest) THEN i + n - 1 ELSE Len(rest))
  IN /\ cmd.val.name = c0.name
     /\ SameStreams(cmd.val, c0)
     /\ cmd.val.args = InsertAt(c0.args, before, kept)

\* the indices after the name at which the scan reads a piece <digits>> or
\* <digits>>> of number 3 or more (the piece is not the target of the piece
\* before it)
FdAboveTwoRead ==
  LET rest == Tail(pieces)
      roles == Roles(rest, 1, TRUE)
  IN {i \in 1..Len(rest) : roles[i] \in {"arg", "kept"} /\ IsFdAboveTwo(rest[i])}

\* C13 as stated: every piece <digits>> or <digits>>> of number 3 or more is
\* appended to args, followed by its target piece, and nothing else changes.
C13_FdAboveTwoKeptWithTarget ==
  (pc = "done" /\ cmd.ok) => \A i \in FdAboveTwoRead : KeptVerbatim(i, 2)

\* C13 amended: the piece and its target piece are appended to args, and
\* nothing else changes, when the number is 3 or more and at most u32::MAX;
\* when the number is larger the piece alone is appended to args and the
\* piece after it is read as any other piece.
C13_FdAboveTwoInRangeKeptWithTarget ==
  (pc = "done" /\ cmd.ok) =>
    \A i \in FdAboveTwoRead :
      IF OverflowsU32(FdDigits(Tail(pieces)[i]))
      THEN KeptVerbatim(i, 1)
      ELSE KeptVerbatim(i, 2)

\* the pieces  c 3> > f  have been turned into a descriptor that holds the
\* three pieces after the name as args and no stream
C13_Witness ==
  /\ pc = "done"
  /\ pieces = <<<<"c">>, Op3Gt, OpGt, WordF>>
  /\ cmd.ok
  /\ cmd.val.args = <<Op3Gt, OpGt, WordF>>
  /\ cmd.val.stdout = None

\* the pieces are redirection operators and their targets only
OnlyRedirections(ps) ==
  /\ ps # <<>>
  /\ \A i \in 1..Len(ps) : Roles(ps, 1, TRUE)[i] \in {"op", "target"}

\* C14: a piece list that consists of redirection operators and their
\* targets only, with no command name before them, gives EmptyCommand.
C14_OnlyRedirectionsIsEmptyCommand ==
  (pc = "done" /\ OnlyRedirections(pieces)) => cmd = Err(EmptyCommand)

\* C15: process never changes the Environment, and what a call returns is
\* the function process(line, env) of its two parameters, whatever calls
\* were made before it.
C15_ProcessOnlyReadsEnvironment ==
  /\ [][env' = env]_vars
  /\ [](pc = "done" => result = process(line, env))

\* a third call, of the line  "" a  after two earlier calls, has returned
\* its descriptor with the Environment still holding its variables
C15_Witness ==
  /\ calls = 2
  /\ pc = "done"
  /\ line = JoinWords(<< <<DQ, DQ>>, <<"a">> >>)
  /\ result.ok
  /\ result.val[1].args = << <<"a">> >>
  /\ env = EnvLong

\* s with each backslash pair replaced by its second character; a backslash
\* that ends s has no second character and is kept or dropped
RECURSIVE ReplacePairs(_, _)
ReplacePairs(s, dropLast) ==
  IF s = <<>> THEN <<>>
  ELSE IF s[1] # BS THEN <<s[1]>> \o ReplacePairs(Tail(s), dropLast)
  ELSE IF Len(s) = 1 THEN (IF dropLast THEN <<>> ELSE s)
  ELSE <<s[2]>> \o ReplacePairs(SubSeq(s, 3, Len(s)), dropLast)

IsDoubleQuoted(r) == Len(r) >= 2 /\ r[1] = DQ /\ r[Len(r)] = DQ

Interior(r) == SubSeq(r, 2, Len(r) - 1)

\* the token with its enclosing quotes stripped and its backslash pairs replaced
StrippedAndUnescaped(r) ==
  ReplacePairs(IF IsSingleQuoted(r) \/ IsDoubleQuoted(r) THEN Interior(r) ELSE r, FALSE)

\* the same, with a single-quoted interior left as it is and a backslash
\* that ends a token dropped
ClassifiedValue(r) ==
  IF IsSingleQuoted(r) THEN Interior(r)
  ELSE ReplacePairs(IF IsDoubleQuoted(r) THEN Interior(r) ELSE r, TRUE)

NoDollar(l) == \A i \in 1..Len(l) : l[i] # DOLLAR

TestEnvs == Envs \cup {EmptyEnv}

\* C16 as stated: for a line without $ that tokenizes, the expansion of its
\* classified tokens is, for every Environment, the sequence of the token
\* values, and these are the tokens with enclosing quotes stripped and each
\* backslash pair replaced by its second character.
C16_ExpansionIsUnescapedToken ==
  (pc # "start" /\ raw.ok /\ NoDollar(line)) =>
    LET tokens == QuoteHandler_handle(raw.val).val IN
    \A e \in TestEnvs :
      /\ expand_tokens(e, tokens).val = [i \in 1..Len(tokens) |-> tokens[i].value]
      /\ \A i \in 1..Len(tokens) : tokens[i].value = StrippedAndUnescaped(raw.val[i])

\* C16 amended: the expansion is the sequence of the token values for every
\* Environment; the value of a single-quoted token is its interior with its
\* backslashes kept, and the value of any other token has each backslash
\* pair replaced by its second character and a backslash that ends the
\* token dropped.
C16_ExpansionIsClassifiedValue ==
  (pc # "start" /\ raw.ok /\ NoDollar(line)) =>
    LET tokens == QuoteHandler_handle(raw.val).val IN
    \A e \in TestEnvs :
      /\ expand_tokens(e, tokens).val = [i \in 1..Len(tokens) |-> tokens[i].value]
      /\ \A i \in 1..Len(tokens) : tokens[i].value = ClassifiedValue(raw.val[i])

\* the line  \\a  has been processed: its token value \a still holds a
\* backslash when it is expanded
C16_Witness ==
  /\ pc = "done"
  /\ line = <<BS, BS, "a">>
  /\ result.ok
  /\ segs[1].tokens[1].value = <<BS, "a">>
  /\ result.val[1].name = <<BS, "a">>

\* every backslash of v stands, pairing from the left, before a $
RECURSIVE OnlyDollarPairs(_)
OnlyDollarPairs(v) ==
  IF v = <<>> THEN TRUE
  ELSE IF v[1] # BS THEN OnlyDollarPairs(Tail(v))
  ELSE Len(v) >= 2 /\ v[2] = DOLLAR /\ OnlyDollarPairs(SubSeq(v, 3, Len(v)))

\* C17 as stated: classifying the value of a Raw token again gives that value.
C17_RawValueReclassifiesToItself ==
  \A t \in TokenIdx :
    TokenOf(t).mode = "Raw" => HandleOne(TokenOf(t).value).value = TokenOf(t).value

\* C17 amended: classifying the value v of a Raw token again gives v exactly
\* when v is not itself enclosed in single or in double quotes and every
\* backslash of v stands before a $; else quotes are stripped or backslashes
\* are consumed.
C17_RawValueReclassifiesToItselfIfPlain ==
  \A t \in TokenIdx :
    TokenOf(t).mode = "Raw" =>
      LET v == TokenOf(t).value IN
      (HandleOne(v).value = v)
        <=> (~IsSingleQuoted(v) /\ ~IsDoubleQuoted(v) /\ OnlyDollarPairs(v))

\* the line  '$A'  has been classified Raw with value $A, which classifies
\* to itself
C17_Witness ==
  /\ pc = "done"
  /\ line = <<SQ, DOLLAR, "A", SQ>>
  /\ segs[1].tokens[1] = Token(<<DOLLAR, "A">>, "Raw")
  /\ HandleOne(<<DOLLAR, "A">>) = Token(<<DOLLAR, "A">>, "Full")

\* C18: the pieces of a segment are one per token, in token order: the i-th
\* piece is the expansion of the i-th token, also when it is empty.
C18_OnePiecePerToken ==
  \A k \in 1..Len(segs) :
    /\ Len(segs[k].tokens) = Len(segs[k].raw)
    /\ Len(segs[k].pieces) = Len(segs[k].tokens)
    /\ \A i \in 1..Len(segs[k].tokens) :
         segs[k].pieces[i] = expand_token(env, segs[k].tokens[i])

\* the line  a "" a  has been expanded into three pieces, the second empty
C18_Witness ==
  /\ pc = "done"
  /\ line = JoinWords(<< <<"a">>, <<DQ, DQ>>, <<"a">> >>)
  /\ segs[1].pieces = << <<"a">>, <<>>, <<"a">> >>
  /\ result.ok
  /\ result.val[1].args = << <<>>, <<"a">> >>

\* the unescape rule: from the left, a backslash followed by $ stays as the
\* two characters \$, a backslash followed by another character c becomes c,
\* and a backslash that ends the text is dropped
RECURSIVE UnescapeRule(_)
UnescapeRule(s) ==
  IF s = <<>> THEN <<>>
  ELSE IF s[1] # BS THEN <<s[1]>> \o UnescapeRule(Tail(s))
  ELSE IF Len(s) = 1 THEN <<>>
  ELSE (IF s[2] = DOLLAR THEN <<BS, DOLLAR>> ELSE <<s[2]>>)
       \o UnescapeRule(SubSeq(s, 3, Len(s)))

\* C19: handle succeeds and gives one Token per raw token, in order; a raw
\* token of length >= 2 that starts and ends with ' is Raw with its interior
\* unchanged, else one that starts and ends with " is Weak with its interior
\* unescaped, else the token is Full with its whole text unescaped.
C19_ClassifyByFirstAndLast ==
  \A k \in 1..Len(segs) :
    /\ QuoteHandler_handle(segs[k].raw) = Ok(segs[k].tokens)
    /\ Len(segs[k].tokens) = Len(segs[k].raw)
    /\ \A i \in 1..Len(segs[k].raw) :
         LET r == segs[k].raw[i] IN
         segs[k].tokens[i] =
           IF IsSingleQuoted(r) THEN Token(Interior(r), "Raw")
           ELSE IF IsDoubleQuoted(r) THEN Token(UnescapeRule(Interior(r)), "Weak")
           ELSE Token(UnescapeRule(r), "Full")

\* the line  '\a'  has been classified Raw with its backslash kept
C19_Witness ==
  /\ pc = "done"
  /\ line = <<SQ, BS, "a", SQ>>
  /\ segs[1].tokens = <<Token(<<BS, "a">>, "Raw")>>

\* C20: unescape_double_quoted and unescape_unquoted give the same result on
\* every token text and every token interior, and this result follows the
\* unescape rule.
C20_UnescapeFunctionsAgree ==
  \A t \in TokenIdx :
    \A x \in {RawOf(t), Interior(RawOf(t))} :
      /\ unescape_double_quoted(x) = unescape_unquoted(x)
      /\ unescape_unquoted(x) = UnescapeRule(x)

\* the line  \$\A  has been classified: its value is \$A
C20_Witness ==
  /\ pc = "done"
  /\ line = <<BS, DOLLAR, BS, "A">>
  /\ segs[1].tokens = <<Token(<<BS, DOLLAR, "A">>, "Full")>>
  /\ unescape_double_quoted(line) = <<BS, DOLLAR, "A">>

\* the character at index i is taken along by a backslash: the character
\* before it is a backslash that is not itself taken along
RECURSIVE EscapedAt(_, _)
EscapedAt(l, i) == i > 1 /\ l[i - 1] = BS /\ ~EscapedAt(l, i - 1)

\* the quote state before index i, a backslash and the character it takes
\* along leaving the state as it is
RECURSIVE QuoteBefore(_, _)
QuoteBefore(l, i) ==
  IF i = 1 THEN NoQuote
  ELSE LET q == QuoteBefore(l, i - 1)
           c == l[i - 1]
       IN IF EscapedAt(l, i - 1) THEN q
          ELSE IF q = NoQuote /\ c \in {SQ, DQ} THEN c
          ELSE IF q # NoQuote /\ c = q THEN NoQuote
          ELSE q

\* a space or tab that is neither quoted nor taken along by a backslash
IsSeparator(l, i) ==
  l[i] \in {SP, TAB} /\ ~EscapedAt(l, i) /\ QuoteBefore(l, i) = NoQuote

\* the maximal runs of characters of l between separators, as they stand in l
RECURSIVE RunsBetweenSeparators(_, _, _)
RunsBetweenSeparators(l, i, cur) ==
  IF i > Len(l) THEN (IF cur # <<>> THEN <<cur>> ELSE <<>>)
  ELSE IF IsSeparator(l, i)
       THEN (IF cur # <<>> THEN <<cur>> ELSE <<>>) \o RunsBetweenSeparators(l, i + 1, <<>>)
  ELSE RunsBetweenSeparators(l, i + 1, Append(cur, l[i]))

\* C21: in every quote state a backslash takes the next character into the
\* token, that character neither splitting nor changing the quote state; a
\* backslash that ends the line is appended alone; the tokens hold the
\* characters of the line as written, backslashes included.
C21_BackslashTakesNextCharacter ==
  pc # "start" =>
    /\ raw.ok <=> QuoteBefore(line, Len(line) + 1) = NoQuote
    /\ raw.ok => raw.val = RunsBetweenSeparators(line, 1, <<>>)

\* the line  a\ \  (an escaped space, then a backslash that ends the line)
\* is one token
C21_Witness ==
  /\ pc = "done"
  /\ line = <<"a", BS, SP, BS>>
  /\ raw = Ok(<< <<"a", BS, SP, BS>> >>)

\* a is b with some elements left out
RECURSIVE IsSubsequence(_, _)
IsSubsequence(a, b) ==
  IF a = <<>> THEN TRUE
  ELSE IF b = <<>> THEN FALSE
  ELSE IF Head(a) = Head(b) THEN IsSubsequence(Tail(a), Tail(b))
  ELSE IsSubsequence(a, Tail(b))

\* the roles of the pieces when the operators are the eight listed ones and
\* the kept forms are the <digits>> forms of number 3 or more
RECURSIVE RolesAsListed(_, _)
RolesAsListed(rest, i) ==
  IF i > Len(rest) THEN <<>>
  ELSE IF rest[i] \in ListedOps
       THEN (IF i < Len(rest) THEN <<"op", "target">> ELSE <<"op">>)
            \o RolesAsListed(rest, i + 2)
  ELSE IF IsFdAboveTwo(rest[i])
       THEN (IF i < Len(rest) THEN <<"kept", "kepttarget">> ELSE <<"kept">>)
            \o RolesAsListed(rest, i + 2)
  ELSE <<"arg">> \o RolesAsListed(rest, i + 1)

\* the pieces of role "arg", in source order
RECURSIVE PlainPieces(_, _, _)
PlainPieces(rest, roles, i) ==
  IF i > Len(rest) THEN <<>>
  ELSE (IF roles[i] = "arg" THEN <<rest[i]>> ELSE <<>>) \o PlainPieces(rest, roles, i + 1)

ValueOrEmpty(e, n) == IF n \in DOMAIN e THEN e[n] ELSE <<>>

\* v holds no backslash, and every $ of v starts a ${NAME} form
RECURSIVE OnlyBracedReferences(_, _)
OnlyBracedReferences(v, i) ==
  IF i > Len(v) THEN TRUE
  ELSE IF v[i] = BS THEN FALSE
  ELSE IF v[i] = DOLLAR
       THEN BracedMatchEnd(v, i) # 0 /\ OnlyBracedReferences(v, BracedMatchEnd(v, i) + 1)
  ELSE OnlyBracedReferences(v, i + 1)

\* v with each ${NAME} replaced by the value of NAME
RECURSIVE BracedValues(_, _, _)
BracedValues(e, v, i) ==
  IF i > Len(v) THEN <<>>
  ELSE IF BracedMatchEnd(v, i) # 0
       THEN ValueOrEmpty(e, SubSeq(v, i + 2, BracedMatchEnd(v, i) - 1))
            \o BracedValues(e, v, BracedMatchEnd(v, i) + 1)
  ELSE <<v[i]>> \o BracedValues(e, v, i + 1)

\* C23: in a Weak or Full token whose references are all of the form
\* ${NAME}, each ${NAME} expands to exactly the value of NAME in the
\* Environment, or to the empty string if NAME is absent.
C23_BracedExpandsToExactValue ==
  \A t \in TokenIdx :
    (TokenOf(t).mode # "Raw" /\ OnlyBracedReferences(TokenOf(t).value, 1)) =>
      PieceOf(t) = BracedValues(env, TokenOf(t).value, 1)

\* every ${NAME} form of s names a variable of e
RECURSIVE AllBracedDefined(_, _, _)
AllBracedDefined(e, s, i) ==
  IF i > Len(s) THEN TRUE
  ELSE IF BracedMatchEnd(s, i) # 0
       THEN SubSeq(s, i + 2, BracedMatchEnd(s, i) - 1) \in DOMAIN e
            /\ AllBracedDefined(e, s, BracedMatchEnd(s, i) + 1)
  ELSE AllBracedDefined(e, s, i + 1)

\* every bare $ of s that stands before an identifier-start character has a
\* maximal identifier run that names a variable of e
RECURSIVE AllBareDefined(_, _, _)
AllBareDefined(e, s, i) ==
  IF i >= Len(s) THEN TRUE
  ELSE IF s[i] = DOLLAR /\ IsIdentStart(s[i + 1])
       THEN SubSeq(s, i + 1, IdentEnd(s, i + 1) - 1) \in DOMAIN e
            /\ AllBareDefined(e, s, IdentEnd(s, i + 1))
  ELSE AllBareDefined(e, s, i + 1)

C25_ParseErrorContinuesLoop ==
  [][(pc = "process" /\ ~process(Trim(line), env).ok) =>
       /\ pc' = "read"
       /\ reported' = "parse error"
       /\ executed' = executed
       /\ env' = env]_vars

\* the second line read,  "a , was rejected after the command of the first
\* line had been executed, and the REPL is reading again
C25_Witness ==
  /\ pc = "read"
  /\ calls = 2
  /\ line = <<DQ, "a", NL>>
  /\ result = Err(QuoteError)
  /\ reported = "parse error"
  /\ executed = << <<"a">> >>

\* C30: the loop ends only on a trimmed input equal to exit, on a parsed
\* command named exit without arguments, or on a read error; a read of zero
\* bytes is handled as an empty line and the loop goes on.
C30_LoopEndsOnlyOnExitOrReadError ==
  /\ [][(pc # "exited" /\ pc' = "exited") =>
          \/ pc = "read" /\ read' = "err"
          \/ pc = "read" /\ read' = "ok" /\ Trim(line') = WordExit
          \/ /\ pc = "commands" /\ cmds # <<>>
             /\ Head(cmds).name = WordExit /\ Head(cmds).args = <<>>]_vars
  /\ [][(pc = "read" /\ read' = "ok" /\ line' = <<>>) => pc' = "read"]_vars

\* a second read returned zero bytes and the REPL is reading again
C30_Witness ==
  /\ pc = "read"
  /\ calls = 2
  /\ read = "ok"
  /\ line = <<>>

\* C26: in a Weak or Full token whose first backslash escapes a second
\* backslash that stands before a $, the two backslashes and the $ give the
\* single literal $: no backslash is left and the $ starts no substitution;
\* the identifier characters after it stay unchanged, whatever the
\* Environment defines.
C26_EscapedBackslashDollarIsLiteral ==
  \A t \in TokenIdx :
    LET b == SourceBody(t)
        B == {j \in 1..Len(b) : b[j] = BS}
    IN (TokenOf(t).mode # "Raw" /\ B # {}) =>
         LET j == CHOOSE x \in B : \A y \in B : x <= y
             after == SubSeq(b, j + 3, Len(b))
             n == IdentEnd(after, 1) - 1
         IN (j + 1 < Len(b) /\ b[j + 1] = BS /\ b[j + 2] = DOLLAR) =>
              PieceOf(t) = PieceFrom(t, SubSeq(b, 1, j - 1)) \o <<DOLLAR>>
                           \o SubSeq(after, 1, n)
                           \o PieceFrom(t, SubSeq(after, n + 1, Len(after)))

\* the line  "\\$A"  has been expanded with A defined
C26_Witness ==
  /\ line = <<DQ, BS, BS, DOLLAR, "A", DQ>>
  /\ NameA \in DOMAIN env
  /\ pc = "done"
  /\ result.ok
  /\ segs[1].tokens[1] = Token(<<BS, DOLLAR, "A">>, "Weak")
  /\ segs[1].pieces = << <<DOLLAR, "A">> >>

\* the last operator of stream s among the pieces rest, if any
LastOpOf(rest, roles, s) ==
  LET I == OpsOfStream(rest, roles, s) IN CHOOSE x \in I : \A y \in I : y <= x

\* C27: operators are recognised on the piece text: in every descriptor of a
\* successful result a piece after the name that equals an operator and is
\* not itself consumed as a target acts as that operator, whether its raw
\* token was the operator itself or was quoted, escaped or a reference: it
\* takes the next piece as the target of its stream (the last operator of a
\* stream decides) and neither piece is in args; a piece | made from a raw
\* token other than | stays in its segment as name or argument.
C27_OperatorsRecognisedOnPieceText ==
  (pc = "done" /\ result.ok) =>
    \A k \in 1..Len(segs) :
      LET ps == segs[k].pieces
          rest == Tail(ps)
          roles == Roles(rest, 1, TRUE)
          c == result.val[k]
      IN /\ \A i \in 1..Len(ps) : ps[i] = expand_token(env, HandleOne(segs[k].raw[i]))
         /\ \A i \in 1..Len(segs[k].raw) : segs[k].raw[i] # <<PIPE>>
         /\ c.name = Head(ps)
         /\ c.args = ArgsOf(rest, roles, 1)
         /\ \A i \in 1..Len(rest) :
              (IsOp(rest[i], TRUE) /\ roles[i] = "op") =>
                 LET s == StreamOfOp(rest[i]) IN
                 /\ i < Len(rest) => roles[i + 1] = "target"
                 /\ i = LastOpOf(rest, roles, s) =>
                      /\ StreamField(c, s) = TargetAfter(rest, i)
                      /\ s # "stdin" => (StreamAppend(c, s) = AppendOfOp(rest[i]))
         /\ \A i \in 1..Len(rest) : (rest[i] = <<PIPE>>) => roles[i] \in {"arg", "target"}

\* the line  a $X ">"  with X set to > : the reference acts as the operator
\* > and consumes the quoted > as its target
C27_Witness ==
  /\ pc = "done"
  /\ env = EnvOp
  /\ line = JoinWords(<< <<"a">>, <<DOLLAR, "X">>, <<DQ, GT, DQ>> >>)
  /\ result.ok
  /\ segs[1].raw = << <<"a">>, <<DOLLAR, "X">>, <<DQ, GT, DQ>> >>
  /\ segs[1].pieces = << <<"a">>, OpGt, OpGt >>
  /\ result.val[1].args = <<>>
  /\ result.val[1].stdout = Some(OpGt)

\* C28: produce_command succeeds on every non-empty piece list; an operator
\* that is the last piece leaves its stream absent, whatever an earlier
\* operator of that stream had set, with the append flag of that last
\* operator; and the piece after an operator is its target even when it is
\* an operator itself: it sets no stream and the scan goes on after it.
C28_OperatorWithoutTargetIsAbsent ==
  (pc = "done" /\ pieces # <<>>) =>
    /\ cmd.ok
    /\ LET rest == Tail(pieces)
           roles == Roles(rest, 1, TRUE)
           c == cmd.val
           n == Len(rest)
       IN /\ (n >= 1 /\ roles[n] = "op") =>
               LET s == StreamOfOp(rest[n]) IN
               /\ StreamField(c, s) = None
               /\ s # "stdin" => (StreamAppend(c, s) = AppendOfOp(rest[n]))
          /\ \A i \in 1..(n - 1) :
               (roles[i] = "op" /\ IsOp(rest[i + 1], TRUE)) =>
                 /\ roles[i + 1] = "target"
                 /\ i = LastOpOf(rest, roles, StreamOfOp(rest[i])) =>
                      StreamField(c, StreamOfOp(rest[i])) = Some(rest[i + 1])
                 /\ c.args = ArgsOf(rest, roles, 1)

\* the pieces  c > f >>  have been turned into a descriptor: stdout is absent
\* and the append flag is set
C28_Witness ==
  /\ pc = "done"
  /\ pieces = <<<<"c">>, OpGt, WordF, OpGtGt>>
  /\ cmd.ok
  /\ cmd.val.stdout = None
  /\ cmd.val.append_stdout
  /\ cmd.val.args = <<>>

\* the number of quote characters of s
QuoteCount(s) == Cardinality({i \in 1..Len(s) : s[i] \in {SQ, DQ}})

HasNoBackslash(s) == \A i \in 1..Len(s) : s[i] # BS

\* C29: a word of adjacent quoted and unquoted parts is one raw token, and a
\* token without backslash is classified as a whole: if it starts and ends
\* with ' its piece is its interior, references and inner quotes included;
\* else if it starts and ends with " its piece is the expansion of its
\* interior; else its piece is the expansion of the whole token; so every
\* quote character except an enclosing pair is in the piece.
C29_MixedWordClassifiedAsWhole ==
  (pc = "done" /\ raw.ok) =>
    /\ (line # <<>> /\ \A i \in 1..Len(line) : ~IsSeparator(line, i)) => raw.val = <<line>>
    /\ \A t \in TokenIdx :
         LET r == RawOf(t) IN
         HasNoBackslash(r) =>
           /\ PieceOf(t) = IF IsSingleQuoted(r) THEN Interior(r)
                           ELSE expand_vars(env, IF IsDoubleQuoted(r) THEN Interior(r) ELSE r)
           /\ QuoteCount(PieceOf(t)) =
                QuoteCount(r) - (IF IsSingleQuoted(r) \/ IsDoubleQuoted(r) THEN 2 ELSE 0)

\* the line  'a'$X'a'  is one Raw token and its piece is  a'$X'a
C29_Witness ==
  /\ pc = "done"
  /\ env = EnvOp
  /\ line = <<SQ, "a", SQ, DOLLAR, "X", SQ, "a", SQ>>
  /\ raw = Ok(<<line>>)
  /\ segs[1].tokens[1].mode = "Raw"
  /\ segs[1].pieces = << <<"a", SQ, DOLLAR, "X", SQ, "a">> >>
  /\ result.ok
  /\ result.val[1].name = <<"a", SQ, DOLLAR, "X", SQ, "a">>

====
